---- MODULE Spec2Model ----
(***************************************************************************)
(* A model of conda_build/config.py: the Config object (set_keys, the      *)
(* croot / build_id / prefix_length properties, build_folder and           *)
(* build_prefix), the process environment it reads with os.getenv and the  *)
(* conda.config values (rc, root_writable, root_dir) it consults.          *)
(*                                                                         *)
(* Python values are tagged records [t, v]; a Python str is a sequence of  *)
(* one-character strings, so that len, slicing, str.replace, int() and the *)
(* lexicographic order used by max() are computed, not assumed.            *)
(* The platform is POSIX (os.path is posixpath).                           *)
(***************************************************************************)
EXTENDS Integers, Sequences, FiniteSets, TLC

(***************************************************************************)
(* Python values                                                           *)
(***************************************************************************)
None == [t |-> "none", v |-> 0]
\* no such key in **kwargs
Absent == [t |-> "absent", v |-> 0]
\* hasattr(self, attr) is False
Unset == [t |-> "unset", v |-> 0]
PyStr(s) == [t |-> "str", v |-> s]
PyInt(n) == [t |-> "int", v |-> n]
PyBool(b) == [t |-> "bool", v |-> b]
PyList(l) == [t |-> "list", v |-> l]
PyTuple(l) == [t |-> "tuple", v |-> l]
PyTrue == PyBool(TRUE)
PyFalse == PyBool(FALSE)

\* bool(x), as `if x:` / `not x` evaluate it
Truthy(x) ==
    CASE x.t = "none" -> FALSE
      [] x.t = "str" -> x.v # <<>>
      [] x.t = "int" -> x.v # 0
      [] x.t = "bool" -> x.v
      [] x.t = "list" -> x.v # <<>>
      [] x.t = "tuple" -> x.v # <<>>
      [] OTHER -> FALSE

\* `a or b`
PyOr(a, b) == IF Truthy(a) THEN a ELSE b

(***************************************************************************)
(* Strings: sequences of characters, ordered as Python orders them         *)
(***************************************************************************)
\* the characters that occur, in code-point order
Alphabet ==
    << "-", ".", "/", "0", "1", "2", "3", "4", "5", "6", "7", "8", "9",
       "_", "a", "b", "c", "d", "e", "h", "i", "l", "n", "o", "p",
       "r", "t", "u", "v", "w", "x", "~" >>

Ord(c) == CHOOSE i \in 1..Len(Alphabet) : Alphabet[i] = c

Digits == {"0", "1", "2", "3", "4", "5", "6", "7", "8", "9"}

DigitVal(c) == Ord(c) - Ord("0")

\* s[:n] for any integer n (a negative n counts from the end)
Slice(s, n) ==
    LET k == IF n >= 0 THEN (IF n < Len(s) THEN n ELSE Len(s))
             ELSE (IF Len(s) + n > 0 THEN Len(s) + n ELSE 0)
    IN SubSeq(s, 1, k)

\* s[i:] for 0 <= i
Drop(s, i) == SubSeq(s, i + 1, Len(s))

StartsWith(s, p) == Len(s) >= Len(p) /\ SubSeq(s, 1, Len(p)) = p

EndsWith(s, p) == Len(s) >= Len(p) /\ SubSeq(s, Len(s) - Len(p) + 1, Len(s)) = p

\* a < b for two str
RECURSIVE StrLess(_, _)
StrLess(a, b) ==
    IF a = <<>> THEN b # <<>>
    ELSE IF b = <<>> THEN FALSE
    ELSE IF Head(a) = Head(b) THEN StrLess(Tail(a), Tail(b))
    ELSE Ord(Head(a)) < Ord(Head(b))

\* max(a, b): the first argument unless the second is greater
StrMax(a, b) == IF StrLess(a, b) THEN b ELSE a

\* n * s
RECURSIVE Repeat(_, _)
Repeat(s, n) == IF n <= 0 THEN <<>> ELSE s \o Repeat(s, n - 1)

\* s.replace(c, '')
RECURSIVE RemoveChar(_, _)
RemoveChar(s, c) ==
    IF s = <<>> THEN <<>>
    ELSE IF Head(s) = c THEN RemoveChar(Tail(s), c)
    ELSE <<Head(s)>> \o RemoveChar(Tail(s), c)

\* int(s) accepts s
IsIntLiteral(s) == s # <<>> /\ \A i \in 1..Len(s) : s[i] \in Digits

RECURSIVE IntOf(_)
IntOf(s) ==
    IF s = <<>> THEN 0
    ELSE 10 * IntOf(SubSeq(s, 1, Len(s) - 1)) + DigitVal(s[Len(s)])

\* "%s" % n for 0 <= n
RECURSIVE StrOfNat(_)
StrOfNat(n) ==
    IF n < 10 THEN <<Alphabet[n + Ord("0")]>>
    ELSE StrOfNat(n \div 10) \o <<Alphabet[(n % 10) + Ord("0")]>>

\* s.find(c, start): the first 0-based index >= start of c, or -1
Find(s, c, start) ==
    LET hits == {i \in start..(Len(s) - 1) : s[i + 1] = c}
    IN IF hits = {} THEN -1 ELSE CHOOSE i \in hits : \A j \in hits : i <= j

\* s.rstrip(c)
RECURSIVE RStrip(_, _)
RStrip(s, c) ==
    IF s # <<>> /\ s[Len(s)] = c THEN RStrip(SubSeq(s, 1, Len(s) - 1), c) ELSE s

\* s.split(c)
RECURSIVE Split(_, _)
Split(s, c) ==
    LET i == Find(s, c, 0)
    IN IF i < 0 THEN <<s>> ELSE <<SubSeq(s, 1, i)>> \o Split(Drop(s, i + 1), c)

\* c.join(parts)
RECURSIVE JoinWith(_, _)
JoinWith(parts, c) ==
    IF parts = <<>> THEN <<>>
    ELSE IF Len(parts) = 1 THEN parts[1]
    ELSE parts[1] \o <<c>> \o JoinWith(Tail(parts), c)

(***************************************************************************)
(* os.path (posixpath)                                                     *)
(***************************************************************************)
\* os.environ['HOME']
HOME == <<"/", "h">>
\* os.getcwd()
Cwd == <<"/", "w">>
\* conda.config.root_dir
cc_root_dir == <<"/", "o">>

\* os.path.join(a, b)
join(a, b) ==
    IF StartsWith(b, <<"/">>) THEN b
    ELSE IF a = <<>> \/ EndsWith(a, <<"/">>) THEN a \o b
    ELSE a \o <<"/">> \o b

\* os.path.expanduser(path); a "~user" prefix names no known user and is kept
expanduser(path) ==
    IF ~StartsWith(path, <<"~">>) THEN path
    ELSE LET f == Find(path, "/", 1)
             i == IF f < 0 THEN Len(path) ELSE f
         IN IF i # 1 THEN path
            ELSE LET r == RStrip(HOME, "/") \o Drop(path, i)
                 IN IF r = <<>> THEN <<"/">> ELSE r

\* the loop of os.path.normpath over the components
RECURSIVE NormComps(_, _, _)
NormComps(comps, acc, initial_slashes) ==
    IF comps = <<>> THEN acc
    ELSE LET comp == Head(comps)
             dotdot == <<".", ".">>
         IN IF comp = <<>> \/ comp = <<".">> THEN NormComps(Tail(comps), acc, initial_slashes)
            ELSE IF comp # dotdot
                    \/ (initial_slashes = 0 /\ acc = <<>>)
                    \/ (acc # <<>> /\ acc[Len(acc)] = dotdot)
                 THEN NormComps(Tail(comps), Append(acc, comp), initial_slashes)
            ELSE IF acc # <<>>
                 THEN NormComps(Tail(comps), SubSeq(acc, 1, Len(acc) - 1), initial_slashes)
            ELSE NormComps(Tail(comps), acc, initial_slashes)

\* os.path.normpath(path)
normpath(path) ==
    IF path = <<>> THEN <<".">>
    ELSE LET initial_slashes ==
                 IF ~StartsWith(path, <<"/">>) THEN 0
                 ELSE IF StartsWith(path, <<"/", "/">>) /\ ~StartsWith(path, <<"/", "/", "/">>)
                      THEN 2 ELSE 1
             body == JoinWith(NormComps(Split(path, "/"), <<>>, initial_slashes), "/")
             res == Repeat(<<"/">>, initial_slashes) \o body
         IN IF res = <<>> THEN <<".">> ELSE res

\* os.path.abspath(path)
abspath(path) ==
    IF StartsWith(path, <<"/">>) THEN normpath(path) ELSE normpath(join(Cwd, path))

(***************************************************************************)
(* The world the Config reads                                              *)
(***************************************************************************)
EnvVars == {"CONDA_PERL", "CONDA_LUA", "CONDA_R", "CONDA_PY", "CONDA_NPY", "CONDA_BLD_PATH"}

\* os.getenv(var): None when the variable is not set
getenv(environ, var) == environ[var]

\* conda.config.binstar_upload
cc_binstar_upload == None

(***************************************************************************)
(* Config                                                                  *)
(***************************************************************************)
\* the (name, default) pairs of set_keys, in order
Settings ==
    << <<"activate", PyTrue>>,
       <<"anaconda_upload", cc_binstar_upload>>,
       <<"channel_urls", PyTuple(<<>>)>>,
       <<"dirty", PyFalse>>,
       <<"include_recipe", PyTrue>>,
       <<"keep_old_work", PyFalse>>,
       <<"noarch", PyFalse>>,
       <<"no_download_source", PyFalse>>,
       <<"override_channels", PyFalse>>,
       <<"skip_existing", PyFalse>>,
       <<"token", None>>,
       <<"user", None>>,
       <<"verbose", PyFalse>> >>

SettingNames == {Settings[i][1] : i \in 1..Len(Settings)}

VersionAttrs == {"CONDA_PERL", "CONDA_LUA", "CONDA_R", "CONDA_PY", "CONDA_NPY"}

\* the attributes of a Config
Attrs ==
    VersionAttrs
    \cup {"_build_id", "_prefix_length", "_croot", "use_long_build_prefix"}
    \cup SettingNames

\* the keywords set_keys looks up
KwKeys ==
    {"perl", "lua", "r", "python", "numpy",
     "build_id", "prefix_length", "croot", "use_long_build_prefix"}
    \cup SettingNames

\* the object before __init__ has assigned anything
Blank == [a \in Attrs |-> Unset]

\* **kwargs with no keyword
NoKwargs == [k \in KwKeys |-> Absent]

\* kwargs.get(key, default)
KwGet(kwargs, key, default) == IF kwargs[key] # Absent THEN kwargs[key] ELSE default

\* str.upper() of the language names
upper(lang) ==
    CASE lang = "perl" -> "PERL"
      [] lang = "lua" -> "LUA"
      [] lang = "r" -> "R"
      [] lang = "py" -> "PY"

\* Config._set_attribute_from_kwargs
_set_attribute_from_kwargs(self, kwargs, attr, default) ==
    LET value == KwGet(kwargs, attr, IF self[attr] # Unset THEN self[attr] ELSE default)
    IN [self EXCEPT ![attr] = value]

\* env(lang, default), had it let the environment variable win over the override
env_variable_first(kwargs, environ, lang, default) ==
    LET version == KwGet(kwargs, lang, None)
        var == "CONDA_" \o upper(IF lang = "python" THEN "py" ELSE lang)
    IN IF Truthy(getenv(environ, var)) THEN getenv(environ, var)
       ELSE IF ~Truthy(version) THEN default
       ELSE IF version.t = "list" /\ Len(version.v) = 1 THEN version.v[1]
       ELSE version

\* the closure env(lang, default) of set_keys
env(kwargs, environ, lang, default) ==
    LET version == KwGet(kwargs, lang, None)
    IN IF ~Truthy(version)
       THEN LET var == "CONDA_" \o upper(IF lang = "python" THEN "py" ELSE lang)
            IN IF Truthy(getenv(environ, var)) THEN getenv(environ, var) ELSE default
       ELSE IF version.t = "list" /\ Len(version.v) = 1 THEN version.v[1]
       ELSE version

\* int(value.replace('.', '')): the int, or the exception raised
int_of_version(value) ==
    IF value.t # "str" THEN [val |-> None, exc |-> "AttributeError"]
    ELSE LET s == RemoveChar(value.v, ".")
         IN IF IsIntLiteral(s) THEN [val |-> PyInt(IntOf(s)), exc |-> "none"]
            ELSE [val |-> None, exc |-> "ValueError"]

\* sys.version_info[:2] of the interpreter running the build
sys_version_info == <<2, 7>>

\* "%s%s" % (sys.version_info.major, sys.version_info.minor)
python_default(version_info) == PyStr(StrOfNat(version_info[1]) \o StrOfNat(version_info[2]))

\* the default prefix length of set_keys
DefaultPrefixLength == 80

\* the loop over the settings at the end of set_keys
RECURSIVE set_settings(_, _, _)
set_settings(self, kwargs, values) ==
    IF values = <<>> THEN self
    ELSE set_settings(_set_attribute_from_kwargs(self, kwargs, Head(values)[1], Head(values)[2]),
                      kwargs, Tail(values))

\* set_keys from the assignment of _build_id on
set_keys_layout(self, kwargs) ==
    LET s1 == [self EXCEPT
                 !["_build_id"] = KwGet(kwargs, "build_id", PyStr(<<>>)),
                 !["_prefix_length"] = KwGet(kwargs, "prefix_length", PyInt(DefaultPrefixLength)),
                 !["_croot"] = KwGet(kwargs, "croot", None),
                 !["use_long_build_prefix"] = KwGet(kwargs, "use_long_build_prefix", PyFalse)]
    IN set_settings(s1, kwargs, Settings)

\* set_keys up to the assignment of CONDA_NPY: the object it leaves and the
\* exception it raised, if any. An exception leaves the attributes assigned before it.
set_keys_versions(self, kwargs, environ, version_info) ==
    LET s1 == [self EXCEPT
                 !["CONDA_PERL"] = env(kwargs, environ, "perl", PyStr(<<"5", ".", "1", "8", ".", "2">>)),
                 !["CONDA_LUA"] = env(kwargs, environ, "lua", PyStr(<<"5", ".", "2">>)),
                 !["CONDA_R"] = env(kwargs, environ, "r", PyStr(<<"3", ".", "2", ".", "2">>))]
        py == int_of_version(env(kwargs, environ, "python", python_default(version_info)))
        s2 == [s1 EXCEPT !["CONDA_PY"] = py.val]
        raw == KwGet(kwargs, "numpy", getenv(environ, "CONDA_NPY"))
        s3 == [s2 EXCEPT !["CONDA_NPY"] = raw]
        npy == int_of_version(raw)
        s4 == [s3 EXCEPT !["CONDA_NPY"] = PyOr(npy.val, None)]
    IN IF py.exc # "none" THEN [self |-> s1, exc |-> py.exc]
       ELSE IF ~Truthy(raw) THEN [self |-> s3, exc |-> "none"]
       ELSE IF npy.exc # "none" THEN [self |-> s3, exc |-> npy.exc]
       ELSE [self |-> s4, exc |-> "none"]

\* the keyword that overrides a version attribute
KeyOfVersionAttr(attr) ==
    CASE attr = "CONDA_PERL" -> "perl"
      [] attr = "CONDA_LUA" -> "lua"
      [] attr = "CONDA_R" -> "r"
      [] attr = "CONDA_PY" -> "python"
      [] attr = "CONDA_NPY" -> "numpy"

\* set_keys, had it kept a version attribute that is already set when the merge
\* does not name it (the precedence the other settings have)
set_keys_keeping_versions(self, kwargs, environ, version_info) ==
    LET r == set_keys_versions(self, kwargs, environ, version_info)
        kept == [a \in Attrs |->
                   IF a \in VersionAttrs /\ self[a] # Unset /\ kwargs[KeyOfVersionAttr(a)] = Absent
                   THEN self[a] ELSE r.self[a]]
    IN IF r.exc # "none" THEN r
       ELSE [self |-> set_keys_layout(kept, kwargs), exc |-> "none"]

\* Config.set_keys: the object it leaves and the exception it raised, if any
set_keys(self, kwargs, environ, version_info) ==
    LET r == set_keys_versions(self, kwargs, environ, version_info)
    IN IF r.exc # "none" THEN r
       ELSE [self |-> set_keys_layout(r.self, kwargs), exc |-> "none"]

\* the fallback chain of Config.croot
croot_fallback(environ, cc) ==
    LET bld_root_env == getenv(environ, "CONDA_BLD_PATH")
        bld_root_rc == cc.rc_root_dir
    IN IF Truthy(bld_root_env) THEN PyStr(abspath(expanduser(bld_root_env.v)))
       ELSE IF Truthy(bld_root_rc) THEN PyStr(abspath(expanduser(bld_root_rc.v)))
       ELSE IF cc.root_writable
            THEN PyStr(join(cc_root_dir, <<"c", "o", "n", "d", "a", "-", "b", "l", "d">>))
       ELSE PyStr(abspath(expanduser(<<"~", "/", "c", "o", "n", "d", "a", "-", "b", "l", "d">>)))

\* Config.croot, had it tested `self._croot is None` instead of `not self._croot`
croot_if_none(self, environ, cc) ==
    IF self["_croot"] = None
    THEN [self |-> [self EXCEPT !["_croot"] = croot_fallback(environ, cc)],
          ret |-> croot_fallback(environ, cc)]
    ELSE [self |-> self, ret |-> self["_croot"]]

\* Config.croot (the getter): the value returned and the object with its cache
croot(self, environ, cc) ==
    IF ~Truthy(self["_croot"])
    THEN [self |-> [self EXCEPT !["_croot"] = croot_fallback(environ, cc)],
          ret |-> croot_fallback(environ, cc)]
    ELSE [self |-> self, ret |-> self["_croot"]]

\* Config.croot (the setter)
croot_setter(self, value) == [self EXCEPT !["_croot"] = value]

\* Config.build_id (the setter)
build_id_setter(self, value) == [self EXCEPT !["_build_id"] = value]

\* Config.prefix_length (the setter)
prefix_length_setter(self, length) == [self EXCEPT !["_prefix_length"] = length]

\* Config.build_folder, given the croot just read
build_folder(croot_value, self) == join(croot_value.v, self["_build_id"].v)

\* math.ceil(a / b) under true division, for b > 0
ceil_div(a, b) == 0 - ((0 - a) \div b)

\* the repeats of build_prefix
repeats(placeholder_length, placeholder) ==
    ceil_div(placeholder_length, Len(placeholder)) + 1

\* the stub of build_prefix
build_stub(folder) == join(folder, <<"_", "b", "u", "i", "l", "d", "_", "e", "n", "v">>)

\* Config.build_prefix, had it returned the padded string without max(stub, ...)
build_prefix_without_max(folder, prefix_length) ==
    LET stub == build_stub(folder)
        placeholder_length == prefix_length - Len(stub)
        placeholder == <<"_", "p", "l", "a", "c", "e", "h", "o", "l", "d">>
    IN Slice(stub \o Repeat(placeholder, repeats(placeholder_length, placeholder)),
             prefix_length)

\* Config.build_prefix, given the build folder
build_prefix(folder, prefix_length) ==
    LET stub == build_stub(folder)
        placeholder_length == prefix_length - Len(stub)
        placeholder == <<"_", "p", "l", "a", "c", "e", "h", "o", "l", "d">>
        padded == Slice(stub \o Repeat(placeholder, repeats(placeholder_length, placeholder)),
                        prefix_length)
    IN StrMax(stub, padded)

\* Config(**kwargs): __init__ runs set_keys on a new object
Config(kwargs, environ, version_info) == set_keys(Blank, kwargs, environ, version_info)

(***************************************************************************)
(* State                                                                   *)
(***************************************************************************)
VARIABLES
    environ,      \* os.environ, restricted to EnvVars
    cc,           \* conda.config: rc['conda-build']['root-dir'] and root_writable
    config,       \* the attributes of the Config object
    op,           \* the last operation
    kwargs,       \* the keywords of the last set_keys / get_or_merge_config
    ret,          \* what the last property read returned
    exc,          \* the exception the last operation raised, or "none"
    stale,        \* the cached croot that the croot setter last cleared
    overrode      \* at a merge: the version keywords the operation just before it overrode

vars == <<environ, cc, config, op, kwargs, ret, exc, stale, overrode>>

VersionKeys == {"perl", "lua", "r", "python", "numpy"}

\* the version keywords a merge overrides
Overridden(kw) == {k \in VersionKeys : kw[k] # Absent /\ Truthy(kw[k])}

(***************************************************************************)
(* Operations                                                              *)
(***************************************************************************)
\* config.set_keys(**kw), kw drawn from K
SetKeys(K) ==
    \E kw \in K :
        LET r == set_keys(config, kw, environ, sys_version_info)
        IN /\ config' = r.self
           /\ exc' = r.exc
           /\ op' = "set_keys"
           /\ kwargs' = kw
           /\ ret' = None
           /\ stale' = None
           /\ overrode' = Overridden(kwargs)
           /\ UNCHANGED <<environ, cc>>

\* get_or_merge_config(config, **kw): config is the object held, or None.
\* op records the last method that ran: __init__ of a new object, set_keys when
\* there are keywords, neither when the object is held and no keyword is given.
GetOrMergeConfig(K) ==
    \E kw \in K, held \in BOOLEAN :
        LET new == Config(NoKwargs, environ, sys_version_info)
            base == IF held THEN config ELSE new.self
            r == IF kw # NoKwargs THEN set_keys(base, kw, environ, sys_version_info)
                 ELSE [self |-> base, exc |-> "none"]
        IN /\ ret' = None
           /\ UNCHANGED <<environ, cc>>
           /\ IF ~held /\ new.exc # "none"
              THEN /\ op' = "__init__"
                   /\ exc' = new.exc
                   /\ kwargs' = NoKwargs
                   /\ UNCHANGED <<config, stale, overrode>>
              ELSE /\ config' = r.self
                   /\ exc' = r.exc
                   /\ kwargs' = kw
                   /\ op' = IF kw # NoKwargs THEN "set_keys"
                            ELSE IF held THEN "get_or_merge_config" ELSE "__init__"
                   /\ stale' = IF held /\ kw = NoKwargs THEN stale ELSE None
                   /\ overrode' = IF held THEN Overridden(kwargs) ELSE {}

\* config.croot
GetCroot ==
    LET r == croot(config, environ, cc)
    IN /\ config' = r.self
       /\ ret' = r.ret
       /\ op' = "croot"
       /\ exc' = "none"
       /\ kwargs' = NoKwargs
       /\ stale' = IF Truthy(config["_croot"]) THEN None ELSE stale
       /\ UNCHANGED <<environ, cc, overrode>>

\* config.croot = value
SetCroot(V) ==
    \E value \in V :
        /\ config' = croot_setter(config, value)
        /\ op' = "croot.setter"
        /\ exc' = "none"
        /\ kwargs' = NoKwargs
        /\ ret' = None
        /\ stale' = IF Truthy(value) THEN None
                    ELSE IF Truthy(config["_croot"]) THEN config["_croot"] ELSE stale
        /\ UNCHANGED <<environ, cc, overrode>>

\* config.build_id = value
SetBuildId(V) ==
    \E value \in V :
        /\ config' = build_id_setter(config, value)
        /\ op' = "build_id.setter"
        /\ exc' = "none"
        /\ kwargs' = NoKwargs
        /\ ret' = None
        /\ UNCHANGED <<environ, cc, stale, overrode>>

\* config.prefix_length = length
SetPrefixLength(V) ==
    \E length \in V :
        /\ config' = prefix_length_setter(config, PyInt(length))
        /\ op' = "prefix_length.setter"
        /\ exc' = "none"
        /\ kwargs' = NoKwargs
        /\ ret' = None
        /\ UNCHANGED <<environ, cc, stale, overrode>>

\* config.build_folder
GetBuildFolder ==
    LET r == croot(config, environ, cc)
    IN /\ config' = r.self
       /\ ret' = PyStr(build_folder(r.ret, r.self))
       /\ op' = "build_folder"
       /\ exc' = "none"
       /\ kwargs' = NoKwargs
       /\ stale' = IF Truthy(config["_croot"]) THEN None ELSE stale
       /\ UNCHANGED <<environ, cc, overrode>>

\* config.build_prefix
GetBuildPrefix ==
    LET r == croot(config, environ, cc)
    IN /\ config' = r.self
       /\ ret' = PyStr(build_prefix(build_folder(r.ret, r.self), r.self["_prefix_length"].v))
       /\ op' = "build_prefix"
       /\ exc' = "none"
       /\ kwargs' = NoKwargs
       /\ stale' = IF Truthy(config["_croot"]) THEN None ELSE stale
       /\ UNCHANGED <<environ, cc, overrode>>

\* the process sets or unsets an environment variable
PutEnv(var, V) ==
    \E value \in V :
        /\ environ' = [environ EXCEPT ![var] = value]
        /\ op' = "putenv"
        /\ exc' = "none"
        /\ kwargs' = NoKwargs
        /\ ret' = None
        /\ UNCHANGED <<cc, config, stale, overrode>>

\* the conda configuration changes: the rc root-dir, or whether the root is writable
SetCondaConfig(V) ==
    \E root_dir \in V, writable \in BOOLEAN :
        /\ cc' = [rc_root_dir |-> root_dir, root_writable |-> writable]
        /\ op' = "conda.config"
        /\ exc' = "none"
        /\ kwargs' = NoKwargs
        /\ ret' = None
        /\ UNCHANGED <<environ, config, stale, overrode>>

\* the state after config = Config(**kw) returned, in the world (e, c)
Constructed(e, c, kw) ==
    LET r == Config(kw, e, sys_version_info)
    IN /\ r.exc = "none"
       /\ environ = e
       /\ cc = c
       /\ config = r.self
       /\ op = "__init__"
       /\ kwargs = kw
       /\ ret = None
       /\ exc = "none"
       /\ stale = None
       /\ overrode = {}

(***************************************************************************)
(* Inputs                                                                  *)
(***************************************************************************)
\* one keyword
Kw1(key, value) == [NoKwargs EXCEPT ![key] = value]

\* two keywords
Kw2(key1, value1, key2, value2) == [NoKwargs EXCEPT ![key1] = value1, ![key2] = value2]

\* the version string used as an override of each version keyword
OverrideOf(key) ==
    CASE key = "perl" -> <<"5", ".", "2", "2">>
      [] key = "lua" -> <<"2", ".", "0">>
      [] key = "r" -> <<"3", ".", "1">>
      [] key = "python" -> <<"3", ".", "1", "0">>
      [] key = "numpy" -> <<"1", ".", "1", "1">>

\* the value each version variable has when it is set and not empty
EnvValueOf(var) ==
    CASE var = "CONDA_PERL" -> <<"5", ".", "2", "0">>
      [] var = "CONDA_LUA" -> <<"5", ".", "1">>
      [] var = "CONDA_R" -> <<"3", ".", "3">>
      [] var = "CONDA_PY" -> <<"3", ".", "4">>
      [] var = "CONDA_NPY" -> <<"1", ".", "9">>

\* override values of every version keyword: empty, a string, a list of one string
VersionOverrides(key) ==
    { PyStr(<<>>),
      PyStr(OverrideOf(key)),
      PyList(<<PyStr(OverrideOf(key))>>) }

\* further override values: None, lists of zero and two elements, a list of one
\* empty string
OddOverrides(key) ==
    { None,
      PyList(<<>>),
      PyList(<<PyStr(<<>>)>>),
      PyList(<<PyStr(OverrideOf(key)), PyStr(<<"0">>)>>) }

\* the keywords of the merges of SpecVersions
VersionKwargs ==
    {NoKwargs}
    \cup UNION {{Kw1(key, value) : value \in VersionOverrides(key)} : key \in VersionKeys}
    \cup UNION {{Kw1(key, value) : value \in OddOverrides(key)} : key \in {"perl", "numpy"}}
    \cup {Kw1(key, value) : key \in {"python", "numpy"},
                            value \in {PyStr(<<"0", ".", "0">>), PyStr(<<"3", "a">>)}}
    \cup {Kw2("perl", PyStr(OverrideOf("perl")), "python", PyStr(<<"2", ".", "7">>))}

\* the keywords given to get_or_merge_config in SpecVersions
MergeKwargs ==
    {NoKwargs, Kw1("lua", PyStr(OverrideOf("lua"))), Kw1("python", PyStr(<<"3", "a">>))}

\* how many of the version variables an environment of SpecVersions sets
MaxEnvSet == 1

\* the environments of SpecVersions: each version variable unset, empty or set
VersionEnvirons ==
    {e \in [EnvVars -> {None, PyStr(<<>>)} \cup {PyStr(EnvValueOf(v)) : v \in VersionAttrs}] :
        /\ e["CONDA_BLD_PATH"] = None
        /\ \A v \in VersionAttrs : e[v] \in {None, PyStr(<<>>), PyStr(EnvValueOf(v))}
        /\ Cardinality({v \in VersionAttrs : e[v] # None}) <= MaxEnvSet}

\* a conda configuration with no rc root-dir and a writable root
PlainCondaConfig == [rc_root_dir |-> None, root_writable |-> TRUE]

(***************************************************************************)
(* SpecVersions: merges of version overrides under every environment       *)
(***************************************************************************)
InitVersions == \E e \in VersionEnvirons : Constructed(e, PlainCondaConfig, NoKwargs)

NextVersions ==
    \/ SetKeys(VersionKwargs)
    \/ GetOrMergeConfig(MergeKwargs)

SpecVersions == InitVersions /\ [][NextVersions]_vars

(***************************************************************************)
(* SpecCroot: croot, its cache and the merges, in a changing world         *)
(***************************************************************************)
\* values of CONDA_BLD_PATH: unset, empty, absolute, under the home directory
BldPaths == {None, PyStr(<<>>), PyStr(<<"/", "e">>), PyStr(<<"~", "/", "e">>)}

\* values of the rc root-dir: not given, or a relative path
RcRootDirs == {None, PyStr(<<"r">>)}

\* values assigned to croot: None, empty, absolute, under the home directory
CrootValues == {None, PyStr(<<>>), PyStr(<<"/", "c">>), PyStr(<<"~", "/", "c">>)}

\* values assigned to build_id
BuildIds == {PyStr(<<>>), PyStr(<<"b">>)}

\* the environments of SpecCroot: no version variable set
CrootEnvirons ==
    {e \in [EnvVars -> BldPaths] :
        \A v \in VersionAttrs : e[v] = None}

CondaConfigs == [rc_root_dir : RcRootDirs, root_writable : BOOLEAN]

\* the keywords of the merges of SpecCroot
LayoutKwargs ==
    { NoKwargs,
      Kw1("build_id", PyStr(<<"b">>)),
      Kw1("croot", PyStr(<<"/", "c">>)),
      Kw1("croot", None),
      Kw1("dirty", PyTrue),
      Kw1("channel_urls", PyTuple(<<PyStr(<<"u">>)>>)),
      Kw1("use_long_build_prefix", PyTrue),
      Kw2("build_id", PyStr(<<"b">>), "dirty", PyFalse) }

InitCroot ==
    \E e \in CrootEnvirons, c \in CondaConfigs : Constructed(e, c, NoKwargs)

NextCroot ==
    \/ SetKeys(LayoutKwargs)
    \/ GetCroot
    \/ GetBuildFolder
    \/ SetCroot(CrootValues)
    \/ SetBuildId(BuildIds)
    \/ PutEnv("CONDA_BLD_PATH", BldPaths)
    \/ SetCondaConfig(RcRootDirs)

SpecCroot == InitCroot /\ [][NextCroot]_vars

(***************************************************************************)
(* SpecPrefix: build_prefix over prefix lengths, build ids and croots      *)
(***************************************************************************)
\* the largest prefix length tried, besides the default
MaxPrefixLength == 36

\* how far below zero the prefix lengths tried go
MaxBelowZero == 2

PrefixLengths == ((0 - MaxBelowZero)..MaxPrefixLength) \cup {DefaultPrefixLength}

\* values assigned to build_id: empty, a name, an absolute path
PrefixBuildIds == {PyStr(<<>>), PyStr(<<"b">>), PyStr(<<"/", "x">>)}

\* values assigned to croot
PrefixCroots == {None, PyStr(<<"/", "c">>), PyStr(<<"~", "/", "c">>)}

\* the keywords of the merges of SpecPrefix
PrefixKwargs ==
    { NoKwargs,
      Kw1("prefix_length", PyInt(0)),
      Kw1("prefix_length", PyInt(20)),
      Kw2("prefix_length", PyInt(30), "build_id", PyStr(<<"b">>)) }

\* the environment of SpecPrefix: nothing set
NoEnviron == [v \in EnvVars |-> None]

InitPrefix ==
    \E kw \in PrefixKwargs : Constructed(NoEnviron, PlainCondaConfig, kw)

NextPrefix ==
    \/ SetKeys(PrefixKwargs)
    \/ SetPrefixLength(PrefixLengths)
    \/ SetBuildId(PrefixBuildIds)
    \/ SetCroot(PrefixCroots)
    \/ GetBuildPrefix

SpecPrefix == InitPrefix /\ [][NextPrefix]_vars

(***************************************************************************)
(* Properties                                                              *)
(***************************************************************************)
\* the last operation was a merge (the one of __init__ included) on the object held
Merged == op = "set_keys" \/ (op = "__init__" /\ exc = "none")

\* the stub of the object's build prefix, from its cached croot and build id
StubOf(self) == build_stub(build_folder(self["_croot"], self))

\* C1: for every stub and every prefix length L >= 1, build_prefix has length
\* exactly L when the stub is shorter than L and is the stub unchanged otherwise;
\* it is never shorter than the stub.
C1_BuildPrefixLength ==
    (op = "build_prefix" /\ config["_prefix_length"].v >= 1) =>
        LET stub == StubOf(config)
            L == config["_prefix_length"].v
        IN /\ Len(stub) < L => Len(ret.v) = L
           /\ Len(stub) >= L => ret.v = stub
           /\ Len(ret.v) >= Len(stub)

\* build_prefix has padded a stub shorter than the prefix length
C1_Witness ==
    /\ op = "build_prefix"
    /\ config["_prefix_length"].v >= 1
    /\ Len(StubOf(config)) < config["_prefix_length"].v
    /\ Len(ret.v) = config["_prefix_length"].v
    /\ ret.v # StubOf(config)

\* the attribute a keyword that is not a version keyword sets
AttrOfKey(key) ==
    CASE key = "build_id" -> "_build_id"
      [] key = "prefix_length" -> "_prefix_length"
      [] key = "croot" -> "_croot"
      [] OTHER -> key

\* C2: a merge that omits a non-version setting (a flag, the channel list,
\* build_id, prefix_length, croot) leaves that setting as it was.
C2_MergeKeepsOmittedSettings ==
    [][(op' = "set_keys" /\ exc' = "none") =>
          \A key \in KwKeys \ VersionKeys :
              kwargs'[key] = Absent => config'[AttrOfKey(key)] = config[AttrOfKey(key)]]_vars

\* C3: once croot holds a non-empty value, every operation other than the croot
\* setter and a merge naming croot leaves it, and every read of croot or of the
\* build folder derived from it returns it.
C3_CrootKeptUntilSetter ==
    [][(/\ Truthy(config["_croot"])
        /\ op' # "croot.setter"
        /\ op' # "__init__"
        /\ ~(op' = "set_keys" /\ kwargs'["croot"] # Absent)) =>
          /\ config'["_croot"] = config["_croot"]
          /\ op' = "croot" => ret' = config["_croot"]
          /\ op' = "build_folder" => ret' = PyStr(build_folder(config["_croot"], config))]_vars

\* the value the version keyword, variable and default resolve to by precedence:
\* a truthy override (its element, for a list of one), else a set and non-empty
\* variable, else the default
C4_Resolved(key, var, default) ==
    LET override == kwargs[key]
        variable == environ[var]
    IN IF override # Absent /\ Truthy(override)
       THEN (IF override.t = "list" /\ Len(override.v) = 1 THEN override.v[1] ELSE override)
       ELSE IF variable # None /\ variable.v # <<>> THEN variable
       ELSE default

\* C4: a merge resolves perl, lua, r and python by precedence: truthy override,
\* else non-empty environment variable, else built-in default (python as the
\* integer of its digits; a python value that is not a version string raises).
C4_VersionPrecedence ==
    Merged =>
        /\ config["CONDA_PERL"] = C4_Resolved("perl", "CONDA_PERL", PyStr(<<"5", ".", "1", "8", ".", "2">>))
        /\ config["CONDA_LUA"] = C4_Resolved("lua", "CONDA_LUA", PyStr(<<"5", ".", "2">>))
        /\ config["CONDA_R"] = C4_Resolved("r", "CONDA_R", PyStr(<<"3", ".", "2", ".", "2">>))
        /\ LET py == C4_Resolved("python", "CONDA_PY", PyStr(<<"2", "7">>))
           IN IF py.t = "str" /\ IsIntLiteral(RemoveChar(py.v, "."))
              THEN config["CONDA_PY"] = PyInt(IntOf(RemoveChar(py.v, ".")))
              ELSE exc # "none"

\* a merge where the perl override beat a set CONDA_PERL
C4_Witness ==
    /\ op = "set_keys"
    /\ exc = "none"
    /\ Truthy(environ["CONDA_PERL"])
    /\ kwargs["perl"] = PyStr(OverrideOf("perl"))
    /\ config["CONDA_PERL"] = PyStr(OverrideOf("perl"))
    /\ config["CONDA_PERL"] # environ["CONDA_PERL"]

\* the croot the claimed resolution order gives: the explicit value expanded,
\* else CONDA_BLD_PATH expanded, else the rc root-dir expanded, else
\* <root>/conda-bld if the root is writable, else ~/conda-bld expanded
C5_Chain(explicit, e, c) ==
    IF Truthy(explicit) THEN PyStr(abspath(expanduser(explicit.v)))
    ELSE IF Truthy(e["CONDA_BLD_PATH"]) THEN PyStr(abspath(expanduser(e["CONDA_BLD_PATH"].v)))
    ELSE IF Truthy(c.rc_root_dir) THEN PyStr(abspath(expanduser(c.rc_root_dir.v)))
    ELSE IF c.root_writable THEN PyStr(cc_root_dir \o <<"/", "c", "o", "n", "d", "a", "-", "b", "l", "d">>)
    ELSE PyStr(HOME \o <<"/", "c", "o", "n", "d", "a", "-", "b", "l", "d">>)

\* C5: a read of croot returns what the first satisfied branch gives, the
\* explicit value being expanded to an absolute path like the others.
C5_CrootResolutionOrder ==
    [][op' = "croot" => ret' = C5_Chain(config["_croot"], environ, cc)]_vars

\* C6: merging {setting: [v]} leaves the same configuration (and the same outcome)
\* as merging {setting: v}, for every version setting and value v.
C6_ListOfOneIsItsElement ==
    [][\A key \in VersionKeys :
          (/\ op' = "set_keys"
           /\ kwargs'[key].t = "list"
           /\ Len(kwargs'[key].v) = 1
           /\ kwargs' = Kw1(key, kwargs'[key])) =>
              [self |-> config', exc |-> exc']
                  = set_keys(config, Kw1(key, kwargs'[key].v[1]), environ, sys_version_info)]_vars

\* C7: the read of croot that follows a clearing of a resolved croot through the
\* setter returns, and caches, what the fallback chain gives in the world as it
\* is at that read.
C7_ClearedCrootResolvedAgain ==
    (op = "croot" /\ Truthy(stale)) =>
        /\ ret = croot_fallback(environ, cc)
        /\ config["_croot"] = ret

\* a read after a clearing that returned another value than the one cleared
C7_Witness ==
    /\ op = "croot"
    /\ Truthy(stale)
    /\ ret # stale
    /\ ret = croot_fallback(environ, cc)

\* C8: build_prefix does not return a path when the prefix length is zero or
\* negative: the length is reported as an error by then at the latest.
C8_NonPositivePrefixLengthRejected ==
    (op = "build_prefix" /\ config["_prefix_length"].v <= 0) => exc # "none"

\* C9: after a successful merge CONDA_NPY is None or a non-zero integer.
C9_NumpyNoneOrNonZeroInt ==
    (Merged /\ exc = "none") =>
        \/ config["CONDA_NPY"] = None
        \/ (config["CONDA_NPY"].t = "int" /\ config["CONDA_NPY"].v # 0)

\* a new Config() in the present environment
FreshConfig == Config(NoKwargs, environ, sys_version_info)

\* C10: after a successful merge the five version values are those the same
\* merge gives on a new Config in the same environment, whatever was merged before.
C10_VersionsResolvedAfresh ==
    (op = "set_keys" /\ exc = "none" /\ FreshConfig.exc = "none") =>
        \A a \in VersionAttrs :
            config[a] = set_keys(FreshConfig.self, kwargs, environ, sys_version_info).self[a]

\* a merge without perl, right after one that overrode perl, left the default
C10_Witness ==
    /\ op = "set_keys"
    /\ exc = "none"
    /\ "perl" \in overrode
    /\ kwargs["perl"] = Absent
    /\ environ["CONDA_PERL"] = None
    /\ config["CONDA_PERL"] = PyStr(<<"5", ".", "1", "8", ".", "2">>)

====
